---- MODULE Spec2Model ----
(***************************************************************************)
(* Model of the electrical-design calculation engine                       *)
(* (src/services/calculator.ts, src/data/tables.ts, src/types.ts) and of   *)
(* the handlers of the form (src/App.tsx): the project document, the       *)
(* equipment library and the load table.                                   *)
(*                                                                         *)
(* JavaScript numbers are modelled as exact rationals n/d together with    *)
(* the special values NaN, +Infinity and -Infinity; the values undefined   *)
(* and null that a LoadItem field can hold are modelled too, with the      *)
(* coercions the arithmetic operators apply to them.  Binary floating      *)
(* point rounding error is not modelled: every finite result is exact.     *)
(* Strings that the source writes in Chinese are written here in ASCII.    *)
(***************************************************************************)
EXTENDS Integers, Sequences, FiniteSets, TLC

VARIABLES
    loads,            \* LoadItem[] handed to the engine
    config,           \* ProjectConfig handed to the engine
    result,           \* last CalculationResult returned (null before any call)
    calc,             \* local variables of that performSystemCalculation run
                      \* (with the record it returned)
    rowRec,           \* last getRowRecommendation call: row index and string
    CABLE_TABLE,      \* module-level array of [mm2, maxAmp]
    BREAKER_SIZES,    \* module-level array of ratings
    CONTACTOR_TABLE,  \* module-level array of [kW, label]
    call,             \* last direct invocation (function and arguments)
    ret,              \* value returned by that invocation
    projectFile,      \* text of the project document last downloaded
    saved,            \* config, loads and result on screen when it was written
    customLibrary,    \* LibraryItem[] of the equipment library
    storage,          \* localStorage entry 'elecMaster_library'
    clock             \* last value Date.now() returned (ms)

vars == <<loads, config, result, calc, rowRec, CABLE_TABLE, BREAKER_SIZES,
          CONTACTOR_TABLE, call, ret, projectFile, saved, customLibrary,
          storage, clock>>

project == <<projectFile, saved>>

library == <<customLibrary, storage, clock>>

tables == <<CABLE_TABLE, BREAKER_SIZES, CONTACTOR_TABLE>>

-----------------------------------------------------------------------------
(* Numbers *)

Abs(x) == IF x < 0 THEN -x ELSE x

RECURSIVE GCD(_, _)
GCD(a, b) == IF b = 0 THEN a ELSE GCD(b, a % b)

\* The finite number n/d in lowest terms with a positive denominator.
Num(n, d) ==
    LET s == IF d < 0 THEN -1 ELSE 1
        g == GCD(Abs(n), Abs(d))
    IN  [t |-> "num", n |-> (s * n) \div g, d |-> (s * d) \div g]

Int2Num(i) == [t |-> "num", n |-> i, d |-> 1]

NaN == [t |-> "NaN", n |-> 0, d |-> 1]

\* +Infinity for s = 1, -Infinity for s = -1.
Infinity(s) == [t |-> "Infinity", n |-> s, d |-> 1]

undefined == [t |-> "undefined", n |-> 0, d |-> 1]

null == [t |-> "null", n |-> 0, d |-> 1]

\* ToNumber, applied by every arithmetic and relational operator.
ToNumber(v) ==
    CASE v.t = "undefined" -> NaN
      [] v.t = "null" -> Int2Num(0)
      [] OTHER -> v

Sign(v) == IF v.n < 0 THEN -1 ELSE IF v.n > 0 THEN 1 ELSE 0

\* a * b
Mul(a, b) ==
    LET x == ToNumber(a)
        y == ToNumber(b)
    IN  CASE x.t = "NaN" \/ y.t = "NaN" -> NaN
          [] x.t = "Infinity" \/ y.t = "Infinity" ->
                IF Sign(x) * Sign(y) = 0 THEN NaN ELSE Infinity(Sign(x) * Sign(y))
          [] OTHER ->
                LET g1 == GCD(Abs(x.n), y.d)
                    g2 == GCD(Abs(y.n), x.d)
                IN  [t |-> "num", n |-> (x.n \div g1) * (y.n \div g2),
                     d |-> (x.d \div g2) * (y.d \div g1)]

\* a + b
Add(a, b) ==
    LET x == ToNumber(a)
        y == ToNumber(b)
    IN  CASE x.t = "NaN" \/ y.t = "NaN" -> NaN
          [] x.t = "Infinity" /\ y.t = "Infinity" ->
                IF x.n = y.n THEN x ELSE NaN
          [] x.t = "Infinity" -> x
          [] y.t = "Infinity" -> y
          [] x.d = y.d -> Num(x.n + y.n, x.d)
          [] OTHER ->
                LET g == GCD(x.d, y.d)
                IN  Num(x.n * (y.d \div g) + y.n * (x.d \div g), (x.d \div g) * y.d)

\* a / b
Div(a, b) ==
    LET x == ToNumber(a)
        y == ToNumber(b)
    IN  CASE x.t = "NaN" \/ y.t = "NaN" -> NaN
          [] x.t = "Infinity" /\ y.t = "Infinity" -> NaN
          [] x.t = "Infinity" -> Infinity(IF Sign(y) < 0 THEN -x.n ELSE x.n)
          [] y.t = "Infinity" -> Int2Num(0)
          [] y.n = 0 -> IF x.n = 0 THEN NaN ELSE Infinity(Sign(x))
          [] OTHER -> Mul(x, [t |-> "num", n |-> Sign(y) * y.d, d |-> Abs(y.n)])

\* a >= b (false as soon as one side is NaN)
Ge(a, b) ==
    LET x == ToNumber(a)
        y == ToNumber(b)
    IN  CASE x.t = "NaN" \/ y.t = "NaN" -> FALSE
          [] x.t = "Infinity" -> x.n = 1 \/ (y.t = "Infinity" /\ y.n = -1)
          [] y.t = "Infinity" -> y.n = -1
          [] x.d = y.d -> x.n >= y.n
          [] OTHER ->
                LET g == GCD(x.d, y.d)
                IN  x.n * (y.d \div g) >= y.n * (x.d \div g)

\* a > b
Gt(a, b) == Ge(a, b) /\ ToNumber(a) # ToNumber(b)

\* a <= b
Le(a, b) == Ge(b, a)

\* a === b
StrictEq(a, b) ==
    IF a.t = "NaN" \/ b.t = "NaN" THEN FALSE ELSE a = b

\* ToBoolean of a number-valued field: 0, NaN, undefined and null are falsy.
Truthy(v) ==
    CASE v.t = "num" -> v.n # 0
      [] v.t = "Infinity" -> TRUE
      [] OTHER -> FALSE

\* a || b
OrElse(a, b) == IF Truthy(a) THEN a ELSE b

RECURSIVE Pow10(_)
Pow10(f) == IF f = 0 THEN 1 ELSE 10 * Pow10(f - 1)

\* x.toFixed(f): the decimal string with f fraction digits nearest to x, a tie
\* going away from zero; "NaN" and "Infinity" for the non-finite values.  The
\* string is kept as its sign-and-digits integer n over the scale d = 10^f.
toFixed(x, f) ==
    IF x.t = "NaN" THEN [t |-> "strNaN", n |-> 0, d |-> 1]
    ELSE IF x.t = "Infinity" THEN [t |-> "strInfinity", n |-> x.n, d |-> 1]
    ELSE LET q == Abs(x.n) \div x.d
             r == Abs(x.n) % x.d
             m == q * Pow10(f) + (2 * r * Pow10(f) + x.d) \div (2 * x.d)
         IN  [t |-> "strdec", n |-> Sign(x) * m, d |-> Pow10(f)]

\* Number(s) of a string produced by toFixed.
Number(s) ==
    CASE s.t = "strdec" -> Num(s.n, s.d)
      [] s.t = "strNaN" -> NaN
      [] s.t = "strInfinity" -> Infinity(s.n)

\* Math.ceil(x)
Ceil(x) ==
    LET v == ToNumber(x)
    IN  IF v.t # "num" THEN v ELSE Int2Num(-((-v.n) \div v.d))

\* array.find(p): the first element that satisfies p, undefined when none
\* does; holds[i] is the value of p on arr[i].
RECURSIVE FindFrom(_, _, _)
FindFrom(arr, holds, i) ==
    IF i > Len(arr) THEN undefined
    ELSE IF holds[i] THEN arr[i]
    ELSE FindFrom(arr, holds, i + 1)

Find(arr, holds) == FindFrom(arr, holds, 1)

\* array.slice().reverse(): a reversed copy.
Reverse(arr) == [i \in 1..Len(arr) |-> arr[Len(arr) + 1 - i]]

-----------------------------------------------------------------------------
(* Lookup tables (src/data/tables.ts) *)

\* [cross-section mm2, allowed current A]
CableTableData ==
    << <<Num(15, 10), Int2Num(14)>>, <<Num(25, 10), Int2Num(20)>>,
       <<Int2Num(4), Int2Num(28)>>, <<Int2Num(6), Int2Num(36)>>,
       <<Int2Num(10), Int2Num(50)>>, <<Int2Num(16), Int2Num(68)>>,
       <<Int2Num(25), Int2Num(89)>>, <<Int2Num(35), Int2Num(110)>>,
       <<Int2Num(50), Int2Num(134)>>, <<Int2Num(70), Int2Num(171)>>,
       <<Int2Num(95), Int2Num(207)>>, <<Int2Num(120), Int2Num(239)>>,
       <<Int2Num(150), Int2Num(276)>>, <<Int2Num(185), Int2Num(311)>>,
       <<Int2Num(240), Int2Num(363)>> >>

BreakerSizesData ==
    [i \in 1..18 |->
        Int2Num(<<6, 10, 16, 20, 25, 32, 40, 50, 63, 80, 100, 125, 160, 200,
                  250, 315, 400, 630>>[i])]

\* [motor power kW, contactor label]
ContactorTableData ==
    << <<Int2Num(4), "09A">>, <<Num(55, 10), "12A">>, <<Num(75, 10), "18A">>,
       <<Int2Num(11), "25A">>, <<Int2Num(15), "32A">>, <<Num(185, 10), "40A">>,
       <<Int2Num(22), "50A">>, <<Int2Num(30), "65A">>, <<Int2Num(37), "80A">>,
       <<Int2Num(45), "95A">> >>

-----------------------------------------------------------------------------
(* Types (src/types.ts); the enum values are written in ASCII *)

LoadType == [MOTOR |-> "MOTOR", HEATER |-> "HEATER", SERVO |-> "SERVO",
             Other |-> "OTHER"]

InputMode == [KW |-> "KW", AMP |-> "AMP"]

-----------------------------------------------------------------------------
(* 0. Effective voltage and equivalent power *)

getEffectiveVoltage(item, systemVoltage) ==
    IF item.useSystemVoltage THEN systemVoltage ELSE item.voltage

\* Variant of getItemEquivalentKw that uses the row's power factor as it is.
getItemEquivalentKw_noCosFallback(item, systemVoltage) ==
    IF item.inputMode = InputMode.KW THEN item.powerKw
    ELSE IF item.inputMode = InputMode.AMP THEN
        LET u == getEffectiveVoltage(item, systemVoltage)
            i == item.ratedAmps
            cos == item.cosPhi
        IN  IF Ge(u, Int2Num(300))
            THEN Div(Mul(Mul(Mul(i, u), Num(1732, 1000)), cos), Int2Num(1000))
            ELSE Div(Mul(Mul(i, u), cos), Int2Num(1000))
    ELSE Int2Num(0)

\* Variant of getItemEquivalentKw that takes only a voltage above 300 as
\* three-phase.
getItemEquivalentKw_above300(item, systemVoltage) ==
    IF item.inputMode = InputMode.KW THEN item.powerKw
    ELSE IF item.inputMode = InputMode.AMP THEN
        LET u == getEffectiveVoltage(item, systemVoltage)
            i == item.ratedAmps
            cos == OrElse(item.cosPhi, Num(8, 10))
        IN  IF Gt(u, Int2Num(300))
            THEN Div(Mul(Mul(Mul(i, u), Num(1732, 1000)), cos), Int2Num(1000))
            ELSE Div(Mul(Mul(i, u), cos), Int2Num(1000))
    ELSE Int2Num(0)

getItemEquivalentKw(item, systemVoltage) ==
    IF item.inputMode = InputMode.KW THEN item.powerKw
    ELSE IF item.inputMode = InputMode.AMP THEN
        LET u == getEffectiveVoltage(item, systemVoltage)
            i == item.ratedAmps
            cos == OrElse(item.cosPhi, Num(8, 10))
        IN  IF Ge(u, Int2Num(300))
            THEN Div(Mul(Mul(Mul(i, u), Num(1732, 1000)), cos), Int2Num(1000))
            ELSE Div(Mul(Mul(i, u), cos), Int2Num(1000))
    ELSE Int2Num(0)

(* 1. Row power *)

\* Variant of calculateRowActivePower that keeps the demand factor within 1.
calculateRowActivePower_kxClamped(item, systemVoltage) ==
    LET p == getItemEquivalentKw(item, systemVoltage)
        kx == IF Gt(item.kx, Int2Num(1)) THEN Int2Num(1) ELSE item.kx
    IN  Mul(Mul(p, item.quantity), kx)

calculateRowActivePower(item, systemVoltage) ==
    LET p == getItemEquivalentKw(item, systemVoltage)
    IN  Mul(Mul(p, item.quantity), item.kx)

-----------------------------------------------------------------------------
(* 3. Breaker and cable selection *)

BreakerSentinel == [text |-> "> 630A (custom)", poles |-> "", size |-> undefined]

\* Variant of selectMainBreaker that wants a rating strictly above the current.
selectMainBreaker_strict(current, voltage) ==
    LET above == [i \in 1..Len(BREAKER_SIZES) |-> Gt(BREAKER_SIZES[i], current)]
        size == Find(BREAKER_SIZES, above)
    IN  IF ~Truthy(size) THEN BreakerSentinel
        ELSE [text |-> "{poles} - {size}A",
              poles |-> IF StrictEq(voltage, Int2Num(220)) THEN "2P" ELSE "3P",
              size |-> size]

\* Variant of selectMainBreaker with the comparison turned round.
selectMainBreaker_inverted(current, voltage) ==
    LET atMost == [i \in 1..Len(BREAKER_SIZES) |-> Ge(current, BREAKER_SIZES[i])]
        size == Find(BREAKER_SIZES, atMost)
    IN  IF ~Truthy(size) THEN BreakerSentinel
        ELSE [text |-> "{poles} - {size}A",
              poles |-> IF StrictEq(voltage, Int2Num(220)) THEN "2P" ELSE "3P",
              size |-> size]

selectMainBreaker(current, voltage) ==
    LET atLeast == [i \in 1..Len(BREAKER_SIZES) |-> Ge(BREAKER_SIZES[i], current)]
        size == Find(BREAKER_SIZES, atLeast)
    IN  IF ~Truthy(size) THEN BreakerSentinel
        ELSE [text |-> "{poles} - {size}A",
              poles |-> IF StrictEq(voltage, Int2Num(220)) THEN "2P" ELSE "3P",
              size |-> size]

\* Variant of getPESize whose middle band stops short of 35.
getPESize_below35(phaseMm2) ==
    IF Le(phaseMm2, Int2Num(16)) THEN phaseMm2
    ELSE IF Gt(Int2Num(35), phaseMm2) THEN Int2Num(16)
    ELSE Div(phaseMm2, Int2Num(2))

getPESize(phaseMm2) ==
    IF Le(phaseMm2, Int2Num(16)) THEN phaseMm2
    ELSE IF Le(phaseMm2, Int2Num(35)) THEN Int2Num(16)
    ELSE Div(phaseMm2, Int2Num(2))

CableSentinel ==
    [text |-> "parallel runs or busbar needed", cores |-> 0,
     phaseMm2 |-> undefined, peMm2 |-> undefined]

\* Variant of selectCable that looks the bare current up, without the factor.
selectCable_noSafetyFactor(current, safetyFactor, voltage) ==
    LET carries == [i \in 1..Len(CABLE_TABLE) |-> Ge(CABLE_TABLE[i][2], current)]
        cableEntry == Find(CABLE_TABLE, carries)
    IN  IF cableEntry = undefined THEN CableSentinel
        ELSE [text |-> "{cores}x{phase}mm2 + 1x{pe}mm2",
              cores |-> IF StrictEq(voltage, Int2Num(220)) THEN 2 ELSE 3,
              phaseMm2 |-> cableEntry[1], peMm2 |-> getPESize(cableEntry[1])]

\* Variant of selectCable that counts the cores by the 300 V threshold.
selectCable_coresByThreshold(current, safetyFactor, voltage) ==
    LET targetCurrent == Mul(current, safetyFactor)
        carries == [i \in 1..Len(CABLE_TABLE) |->
                        Ge(CABLE_TABLE[i][2], targetCurrent)]
        cableEntry == Find(CABLE_TABLE, carries)
    IN  IF cableEntry = undefined THEN CableSentinel
        ELSE LET phaseMm2 == cableEntry[1]
                 peMm2 == getPESize(phaseMm2)
             IN  [text |-> "{cores}x{phase}mm2 + 1x{pe}mm2",
                  cores |-> IF Ge(voltage, Int2Num(300)) THEN 3 ELSE 2,
                  phaseMm2 |-> phaseMm2, peMm2 |-> peMm2]

selectCable(current, safetyFactor, voltage) ==
    LET targetCurrent == Mul(current, safetyFactor)
        carries == [i \in 1..Len(CABLE_TABLE) |->
                        Ge(CABLE_TABLE[i][2], targetCurrent)]
        cableEntry == Find(CABLE_TABLE, carries)
    IN  IF cableEntry = undefined THEN CableSentinel
        ELSE LET phaseMm2 == cableEntry[1]
                 peMm2 == getPESize(phaseMm2)
             IN  [text |-> "{cores}x{phase}mm2 + 1x{pe}mm2",
                  cores |-> IF StrictEq(voltage, Int2Num(220)) THEN 2 ELSE 3,
                  phaseMm2 |-> phaseMm2, peMm2 |-> peMm2]

-----------------------------------------------------------------------------
(* 4. DC24V supply *)

\* Variant of totalAmps that weights each row by its demand factor as well.
RECURSIVE totalAmps_withKx(_)
totalAmps_withKx(ls) ==
    IF ls = <<>> THEN Int2Num(0)
    ELSE LET item == ls[Len(ls)]
             before == totalAmps_withKx(SubSeq(ls, 1, Len(ls) - 1))
         IN  IF item.uses24V
             THEN Add(before, Mul(Mul(item.current24V, item.quantity), item.kx))
             ELSE before

RECURSIVE totalAmps(_)
totalAmps(ls) ==
    IF ls = <<>> THEN Int2Num(0)
    ELSE LET item == ls[Len(ls)]
             before == totalAmps(SubSeq(ls, 1, Len(ls) - 1))
         IN  IF item.uses24V THEN Add(before, Mul(item.current24V, item.quantity))
             ELSE before

\* Variant of recommendedAmps with the lower of the two margins the comment names.
recommendedAmps_margin20(total) == Mul(total, Num(12, 10))

\* const recommended = totalAmps * 1.3
recommendedAmps(total) == Mul(total, Num(13, 10))

\* Variant of supplyDescription whose breakpoints are exclusive.
supplyDescription_exclusive(recommended) ==
    LET none == undefined
    IN  IF Gt(Num(25, 10), recommended) THEN [text |-> "60W (2.5A) supply", amps |-> none]
        ELSE IF Gt(Int2Num(5), recommended) THEN [text |-> "120W (5A) supply", amps |-> none]
        ELSE IF Gt(Int2Num(10), recommended) THEN [text |-> "240W (10A) supply", amps |-> none]
        ELSE IF Gt(Int2Num(20), recommended) THEN [text |-> "480W (20A) supply", amps |-> none]
        ELSE [text |-> "{amps}A or more, parallel or larger supply",
              amps |-> Ceil(recommended)]

\* The if / else-if chain that sets desc.
supplyDescription(recommended) ==
    LET none == undefined
    IN  IF Le(recommended, Num(25, 10)) THEN [text |-> "60W (2.5A) supply", amps |-> none]
        ELSE IF Le(recommended, Int2Num(5)) THEN [text |-> "120W (5A) supply", amps |-> none]
        ELSE IF Le(recommended, Int2Num(10)) THEN [text |-> "240W (10A) supply", amps |-> none]
        ELSE IF Le(recommended, Int2Num(20)) THEN [text |-> "480W (20A) supply", amps |-> none]
        ELSE [text |-> "{amps}A or more, parallel or larger supply",
              amps |-> Ceil(recommended)]

\* Variant: the description is chosen from the recommended current as it is
\* reported, after rounding to two decimals.
dc24vCalculation_descFromReported(ls) ==
    LET total == totalAmps(ls)
        recommended == recommendedAmps(total)
    IN  [totalAmps |-> total, recommended |-> recommended,
         returned |->
            [totalCurrent |-> Number(toFixed(total, 2)),
             recommendedCurrent |-> Number(toFixed(recommended, 2)),
             description |-> supplyDescription(Number(toFixed(recommended, 2)))]]

\* The locals of one calculateDC24V run and the record it returns.
dc24vCalculation(ls) ==
    LET total == totalAmps(ls)
        recommended == recommendedAmps(total)
    IN  [totalAmps |-> total, recommended |-> recommended,
         returned |->
            [totalCurrent |-> Number(toFixed(total, 2)),
             recommendedCurrent |-> Number(toFixed(recommended, 2)),
             description |-> supplyDescription(recommended)]]

calculateDC24V(ls) == dc24vCalculation(ls).returned

-----------------------------------------------------------------------------
(* 2. System totals and main current *)

\* Variant of rawActivePower that rounds every row before adding it.
RECURSIVE rawActivePower_roundedRows(_, _)
rawActivePower_roundedRows(ls, cfg) ==
    IF ls = <<>> THEN Int2Num(0)
    ELSE Add(rawActivePower_roundedRows(SubSeq(ls, 1, Len(ls) - 1), cfg),
             Number(toFixed(calculateRowActivePower(ls[Len(ls)], cfg.systemVoltage), 2)))

RECURSIVE rawActivePower(_, _)
rawActivePower(ls, cfg) ==
    IF ls = <<>> THEN Int2Num(0)
    ELSE Add(rawActivePower(SubSeq(ls, 1, Len(ls) - 1), cfg),
             calculateRowActivePower(ls[Len(ls)], cfg.systemVoltage))

totalDesignPower(raw, cfg) == Mul(raw, cfg.marginFactor)

\* totalS as the forEach loop leaves it
RECURSIVE sumS(_, _)
sumS(ls, cfg) ==
    IF ls = <<>> THEN Int2Num(0)
    ELSE LET item == ls[Len(ls)]
             p == calculateRowActivePower(item, cfg.systemVoltage)
             cos == OrElse(item.cosPhi, Num(8, 10))
         IN  Add(sumS(SubSeq(ls, 1, Len(ls) - 1), cfg), Div(p, cos))

\* Variant of totalS without the guard against a zero sum.
totalS_noGuard(looped) == looped

\* totalS after the empty-collection guard
totalS(looped) ==
    IF StrictEq(looped, Int2Num(0)) THEN Num(1, 10) ELSE looped

\* Variant of avgCosPhi without the 0.8 fallback.
avgCosPhi_noFallback(raw, S) == Div(raw, S)

avgCosPhi(raw, S) == OrElse(Div(raw, S), Num(8, 10))

\* Variant of mainCurrent that picks the formula by the 300 V threshold.
mainCurrent_byThreshold(design, avg, cfg) ==
    IF Ge(cfg.systemVoltage, Int2Num(300))
    THEN Div(Mul(design, Int2Num(1000)),
             Mul(Mul(Num(1732, 1000), cfg.systemVoltage), avg))
    ELSE Div(Mul(design, Int2Num(1000)), Mul(cfg.systemVoltage, avg))

mainCurrent(design, avg, cfg) ==
    IF StrictEq(cfg.systemVoltage, Int2Num(220))
    THEN Div(Mul(design, Int2Num(1000)), Mul(cfg.systemVoltage, avg))
    ELSE Div(Mul(design, Int2Num(1000)),
             Mul(Mul(Num(1732, 1000), cfg.systemVoltage), avg))

\* The locals of one run and the record it returns.
\* Variant: the breaker is selected from the current as it is reported, after
\* rounding to one decimal.
systemCalculation_breakerFromReported(ls, cfg) ==
    LET raw == rawActivePower(ls, cfg)
        design == totalDesignPower(raw, cfg)
        S == totalS(sumS(ls, cfg))
        avg == avgCosPhi(raw, S)
        cur == mainCurrent(design, avg, cfg)
    IN  [rawActivePower |-> raw, totalDesignPower |-> design, totalS |-> S,
         avgCosPhi |-> avg, mainCurrent |-> cur,
         returned |->
            [totalActivePower |-> Number(toFixed(raw, 2)),
             totalApparentPower |-> Number(toFixed(Div(raw, avg), 2)),
             mainCurrent |-> Number(toFixed(cur, 1)),
             mainBreaker |-> selectMainBreaker(Number(toFixed(cur, 1)),
                                               cfg.systemVoltage),
             mainCable |-> selectCable(cur, cfg.cableSafetyFactor,
                                       cfg.systemVoltage),
             dc24v |-> calculateDC24V(ls)]]

systemCalculation(ls, cfg) ==
    LET raw == rawActivePower(ls, cfg)
        design == totalDesignPower(raw, cfg)
        S == totalS(sumS(ls, cfg))
        avg == avgCosPhi(raw, S)
        cur == mainCurrent(design, avg, cfg)
    IN  [rawActivePower |-> raw, totalDesignPower |-> design, totalS |-> S,
         avgCosPhi |-> avg, mainCurrent |-> cur,
         returned |->
            [totalActivePower |-> Number(toFixed(raw, 2)),
             totalApparentPower |-> Number(toFixed(Div(raw, avg), 2)),
             mainCurrent |-> Number(toFixed(cur, 1)),
             mainBreaker |-> selectMainBreaker(cur, cfg.systemVoltage),
             mainCable |-> selectCable(cur, cfg.cableSafetyFactor,
                                       cfg.systemVoltage),
             dc24v |-> calculateDC24V(ls)]]

performSystemCalculation(ls, cfg) == systemCalculation(ls, cfg).returned

-----------------------------------------------------------------------------
(* 5. Per-row advice *)

\* Variant of sliceReverse without the copy: reverse() on the array itself.
sliceReverse_inPlace(arr) == [copy |-> Reverse(arr), original |-> Reverse(arr)]

\* CONTACTOR_TABLE.slice().reverse(): the reversed copy that is searched, and
\* the module-level array as the expression leaves it.
sliceReverse(arr) == [copy |-> Reverse(arr), original |-> arr]

\* The contactor label of a motor row: the first entry of the reversed copy
\* that the power reaches, 'CJX2-09' when it reaches none.
motorContactor(kw) ==
    LET searched == sliceReverse(CONTACTOR_TABLE).copy
        reaches == [i \in 1..Len(searched) |-> Ge(kw, searched[i][1])]
        entry == Find(searched, reaches)
    IN  IF entry = undefined THEN "CJX2-09" ELSE entry[2]

\* The estimated current of a motor row (i_motor).
motorCurrent(item, systemVoltage) ==
    LET effectiveVoltage == getEffectiveVoltage(item, systemVoltage)
        kw == getItemEquivalentKw(item, systemVoltage)
        isThreePhase == Ge(effectiveVoltage, Int2Num(300))
        root3 == IF isThreePhase THEN Num(1732, 1000) ELSE Int2Num(1)
        factor == Div(Int2Num(1000), Mul(Mul(root3, effectiveVoltage), Num(8, 10)))
    IN  IF item.inputMode = InputMode.AMP THEN item.ratedAmps
        ELSE Mul(kw, factor)

\* Variant of motorBreakerSize that accepts a size equal to 1.5 x the current.
motorBreakerSize_atLeast(i_motor) ==
    LET atLeast == [i \in 1..Len(BREAKER_SIZES) |->
                        Ge(BREAKER_SIZES[i], Mul(i_motor, Num(15, 10)))]
    IN  OrElse(Find(BREAKER_SIZES, atLeast), Int2Num(63))

\* BREAKER_SIZES.find(s => s > i_motor * 1.5) || 63
motorBreakerSize(i_motor) ==
    LET above == [i \in 1..Len(BREAKER_SIZES) |->
                    Gt(BREAKER_SIZES[i], Mul(i_motor, Num(15, 10)))]
    IN  OrElse(Find(BREAKER_SIZES, above), Int2Num(63))

\* The string a template literal or toFixed call makes of the row's values.
getRowRecommendation(item, systemVoltage) ==
    LET effectiveVoltage == getEffectiveVoltage(item, systemVoltage)
        kw == getItemEquivalentKw(item, systemVoltage)
        isThreePhase == Ge(effectiveVoltage, Int2Num(300))
        root3 == IF isThreePhase THEN Num(1732, 1000) ELSE Int2Num(1)
        none == undefined
    IN  IF item.type = LoadType.MOTOR THEN
            [text |-> "contactor:{contactor} / breaker:D{breaker}",
             contactor |-> motorContactor(kw),
             breaker |-> motorBreakerSize(motorCurrent(item, systemVoltage)),
             amps |-> none]
        ELSE IF item.type = LoadType.HEATER THEN
            LET i_heat == IF item.inputMode = InputMode.AMP THEN item.ratedAmps
                          ELSE Div(Mul(kw, Int2Num(1000)),
                                   Mul(effectiveVoltage, root3))
            IN  IF i_heat.t \in {"undefined", "null"}
                THEN [text |-> "TypeError", contactor |-> "", breaker |-> none,
                      amps |-> none]
                ELSE [text |-> "current about {amps}A", contactor |-> "",
                      breaker |-> none, amps |-> toFixed(i_heat, 1)]
        ELSE IF item.inputMode = InputMode.AMP THEN
            [text |-> "rated current {amps}A", contactor |-> "",
             breaker |-> none, amps |-> item.ratedAmps]
        ELSE [text |-> "-", contactor |-> "", breaker |-> none, amps |-> none]

-----------------------------------------------------------------------------
(* Inputs *)

\* Longest load collection handed to the engine.
MaxLoads == 2

DefaultItem ==
    [id |-> "1", name |-> "load", type |-> LoadType.MOTOR,
     inputMode |-> InputMode.KW, powerKw |-> Num(55, 10), ratedAmps |-> Int2Num(0),
     useSystemVoltage |-> TRUE, voltage |-> Int2Num(380),
     quantity |-> Int2Num(1), kx |-> Int2Num(1), cosPhi |-> Num(8, 10),
     uses24V |-> FALSE, current24V |-> Int2Num(0)]

\* Rows as the form can produce them: a cleared number field holds NaN
\* (parseFloat of the empty string), a field absent from an imported document
\* is undefined, and no field has a lower limit.

\* Power-mode rows with differing power factors, a negative quantity, a large
\* power, and rows with a missing or cleared field.
KwItems ==
    { [DefaultItem EXCEPT !.cosPhi = Int2Num(0)],
      [DefaultItem EXCEPT !.quantity = Int2Num(-1), !.cosPhi = Num(5, 10)],
      [DefaultItem EXCEPT !.powerKw = Num(176, 10), !.kx = Num(5, 10)],
      [DefaultItem EXCEPT !.powerKw = Int2Num(400)],
      [DefaultItem EXCEPT !.powerKw = undefined],
      [DefaultItem EXCEPT !.quantity = NaN, !.type = LoadType.HEATER] }

\* Current-mode rows, following the system voltage or carrying their own.
AmpItems ==
    { [DefaultItem EXCEPT !.type = LoadType.Other, !.inputMode = InputMode.AMP,
                          !.ratedAmps = Int2Num(10), !.cosPhi = Num(9, 10)],
      [DefaultItem EXCEPT !.inputMode = InputMode.AMP, !.ratedAmps = Int2Num(10),
                          !.cosPhi = Num(9, 10), !.useSystemVoltage = FALSE,
                          !.voltage = Int2Num(220)],
      [DefaultItem EXCEPT !.type = LoadType.HEATER, !.inputMode = InputMode.AMP,
                          !.ratedAmps = Int2Num(4), !.cosPhi = Num(9, 10),
                          !.quantity = Int2Num(2)],
      [DefaultItem EXCEPT !.cosPhi = Num(9, 10), !.powerKw = Int2Num(3)] }

\* Rows whose power factor is 0.8 or zero, small powers, and 24V draw.
Cos08Items ==
    { DefaultItem,
      [DefaultItem EXCEPT !.inputMode = InputMode.AMP, !.ratedAmps = Int2Num(10),
                          !.cosPhi = Int2Num(0)],
      [DefaultItem EXCEPT !.inputMode = InputMode.AMP, !.ratedAmps = Int2Num(10),
                          !.cosPhi = Int2Num(0), !.useSystemVoltage = FALSE,
                          !.voltage = Int2Num(220)],
      [DefaultItem EXCEPT !.powerKw = Num(4, 1000), !.type = LoadType.HEATER],
      [DefaultItem EXCEPT !.powerKw = Num(75, 100), !.uses24V = TRUE,
                          !.current24V = Int2Num(1), !.quantity = Int2Num(2)],
      [DefaultItem EXCEPT !.powerKw = Int2Num(0), !.current24V = Num(5, 10)] }

ItemFamilies == {KwItems, AmpItems, Cos08Items}

LoadLists == UNION { [1..n -> F] : n \in 0..MaxLoads, F \in ItemFamilies }

ConfigSet ==
    [systemVoltage : {Int2Num(220), Int2Num(380), Int2Num(110)},
     marginFactor : {Num(12, 10)},
     cableSafetyFactor : {Num(125, 100)},
     defaultCosPhi : {Num(8, 10)}]
    \cup
    [systemVoltage : {Int2Num(380)},
     marginFactor : {Num(15, 10)},
     cableSafetyFactor : {Int2Num(1)},
     defaultCosPhi : {Num(8, 10)}]

DefaultConfig ==
    [systemVoltage |-> Int2Num(380), marginFactor |-> Num(12, 10),
     cableSafetyFactor |-> Num(125, 100), defaultCosPhi |-> Num(8, 10)]

NoResult == [none |-> TRUE]

NoCall == [fn |-> "none"]

NoFile == [none |-> TRUE]

\* The equipment library panel is not part of the run: nothing stored, no
\* entries, the clock at its origin.
LibraryClosed ==
    /\ customLibrary = <<>>
    /\ storage = NoFile
    /\ clock = 0

TablesInit ==
    /\ CABLE_TABLE = CableTableData
    /\ BREAKER_SIZES = BreakerSizesData
    /\ CONTACTOR_TABLE = ContactorTableData

-----------------------------------------------------------------------------
(* The engine called on a snapshot of loads and config *)

Init ==
    /\ loads \in LoadLists
    /\ config \in ConfigSet
    /\ result = NoResult
    /\ calc = NoResult
    /\ rowRec = NoResult
    /\ TablesInit
    /\ call = NoCall
    /\ ret = NoResult
    /\ projectFile = NoFile
    /\ saved = NoResult
    /\ LibraryClosed

PerformSystemCalculation ==
    /\ calc' = systemCalculation(loads, config)
    /\ result' = calc'.returned
    /\ UNCHANGED <<loads, config, rowRec, tables, call, ret, project, library>>

GetRowRecommendation ==
    \E i \in 1..Len(loads) :
        /\ rowRec' = [row |-> i,
                      out |-> getRowRecommendation(loads[i], config.systemVoltage)]
        /\ CONTACTOR_TABLE' =
              IF loads[i].type = LoadType.MOTOR
              THEN sliceReverse(CONTACTOR_TABLE).original
              ELSE CONTACTOR_TABLE
        /\ UNCHANGED <<loads, config, result, calc, CABLE_TABLE, BREAKER_SIZES,
                       call, ret, project, library>>

Next == PerformSystemCalculation \/ GetRowRecommendation

Spec == Init /\ [][Next]_vars

-----------------------------------------------------------------------------
(* The selectors called directly on a current or a cross-section *)

\* Largest current handed to a selector, in half amperes.
MaxHalfAmps == 1300

\* Largest off-table cross-section handed to getPESize, in 1/100 mm2.
MaxCentiMm2 == 3600

Currents == { Num(k, 2) : k \in (-2)..MaxHalfAmps }

Voltages == {Int2Num(220), Int2Num(380)}

CallSet ==
    [fn : {"selectMainBreaker"}, current : Currents, safetyFactor : {Int2Num(1)},
     voltage : Voltages, phaseMm2 : {Int2Num(0)}]
    \cup
    [fn : {"selectCable"}, current : Currents,
     safetyFactor : {Int2Num(1), Num(125, 100)},
     voltage : Voltages, phaseMm2 : {Int2Num(0)}]
    \cup
    [fn : {"getPESize"}, current : {Int2Num(0)}, safetyFactor : {Int2Num(1)},
     voltage : {Int2Num(380)},
     phaseMm2 : { Num(k, 100) : k \in 1..MaxCentiMm2 }
                \cup { CableTableData[i][1] : i \in 1..Len(CableTableData) }]

SelectorInit ==
    /\ loads = <<>>
    /\ config = DefaultConfig
    /\ result = NoResult
    /\ calc = NoResult
    /\ rowRec = NoResult
    /\ TablesInit
    /\ call \in CallSet
    /\ ret = NoResult
    /\ projectFile = NoFile
    /\ saved = NoResult
    /\ LibraryClosed

SelectMainBreaker ==
    /\ call.fn = "selectMainBreaker"
    /\ ret' = selectMainBreaker(call.current, call.voltage)
    /\ UNCHANGED <<loads, config, result, calc, rowRec, tables, call, project, library>>

SelectCable ==
    /\ call.fn = "selectCable"
    /\ ret' = selectCable(call.current, call.safetyFactor, call.voltage)
    /\ UNCHANGED <<loads, config, result, calc, rowRec, tables, call, project, library>>

GetPESize ==
    /\ call.fn = "getPESize"
    /\ ret' = [text |-> "", cores |-> 0, phaseMm2 |-> call.phaseMm2,
               peMm2 |-> getPESize(call.phaseMm2)]
    /\ UNCHANGED <<loads, config, result, calc, rowRec, tables, call, project, library>>

SelectorNext == SelectMainBreaker \/ SelectCable \/ GetPESize

SelectorSpec == SelectorInit /\ [][SelectorNext]_vars

-----------------------------------------------------------------------------
(* The row functions called on one row of the table *)

\* Current-mode rows around the 300 V threshold, with and without a power
\* factor.
AmpRowItems ==
    { [DefaultItem EXCEPT !.inputMode = InputMode.AMP, !.type = ty,
                          !.ratedAmps = i, !.useSystemVoltage = follow,
                          !.voltage = u, !.cosPhi = cos] :
        ty \in {LoadType.MOTOR, LoadType.Other},
        i \in {Int2Num(4), Int2Num(10), Int2Num(500)},
        follow \in BOOLEAN,
        u \in {Int2Num(220), Int2Num(299), Int2Num(300)},
        cos \in {Int2Num(0), Num(5, 10), Num(8, 10)} }

\* Power-mode motor rows around the contactor thresholds, and rows of 1.461 kW
\* and 1.47 kW (main currents just below and just above 10 A on a 220 V system).
KwRowItems ==
    { [DefaultItem EXCEPT !.powerKw = p, !.useSystemVoltage = follow,
                          !.voltage = Int2Num(220), !.cosPhi = cos] :
        p \in {Int2Num(0), Num(1461, 1000), Num(147, 100), Int2Num(3), Num(399, 100), Int2Num(4),
               Num(54, 10), Num(55, 10), Num(185, 10), Int2Num(44), Int2Num(45),
               Int2Num(400)},
        follow \in BOOLEAN,
        cos \in {Num(5, 10), Num(8, 10)} }

\* Rows whose quantity and demand factor lie outside the usual range.
ScaledRowItems ==
    { [base EXCEPT !.quantity = q, !.kx = kx] :
        base \in {DefaultItem,
                  [DefaultItem EXCEPT !.inputMode = InputMode.AMP,
                                      !.ratedAmps = Int2Num(10)]},
        q \in {Int2Num(-1), Int2Num(0), Int2Num(2)},
        kx \in {Num(5, 10), Num(15, 10), Int2Num(2)} }

RowItems == AmpRowItems \cup KwRowItems \cup ScaledRowItems

RowConfigs ==
    { [DefaultConfig EXCEPT !.systemVoltage = u] :
        u \in {Int2Num(110), Int2Num(220), Int2Num(299), Int2Num(300),
               Int2Num(380)} }

RowInit ==
    /\ loads \in { <<item>> : item \in RowItems }
    /\ config \in RowConfigs
    /\ result = NoResult
    /\ calc = NoResult
    /\ rowRec = NoResult
    /\ TablesInit
    /\ call = NoCall
    /\ ret = NoResult
    /\ projectFile = NoFile
    /\ saved = NoResult
    /\ LibraryClosed

GetItemEquivalentKw ==
    \E i \in 1..Len(loads) :
        /\ ret' = [fn |-> "getItemEquivalentKw", row |-> i,
                   value |-> getItemEquivalentKw(loads[i], config.systemVoltage)]
        /\ UNCHANGED <<loads, config, result, calc, rowRec, tables, call, project, library>>

CalculateRowActivePower ==
    \E i \in 1..Len(loads) :
        /\ ret' = [fn |-> "calculateRowActivePower", row |-> i,
                   value |-> calculateRowActivePower(loads[i], config.systemVoltage)]
        /\ UNCHANGED <<loads, config, result, calc, rowRec, tables, call, project, library>>

RowNext ==
    \/ GetItemEquivalentKw
    \/ CalculateRowActivePower
    \/ GetRowRecommendation
    \/ PerformSystemCalculation

RowSpec == RowInit /\ [][RowNext]_vars

-----------------------------------------------------------------------------
(* The 24V supply calculation called on a collection of rows *)

\* Longest load collection handed to calculateDC24V.
MaxDcLoads == 2

\* Rows with and without the 24V flag; 25/13 A and 200/13 A are the draws
\* whose 1.3-fold is exactly 2.5 A and 20 A.
DcGridItems ==
    { [DefaultItem EXCEPT !.uses24V = uses, !.current24V = amps] :
        uses \in BOOLEAN,
        amps \in {Num(5, 100), Num(5, 10), Num(25, 13), Num(200, 13), Int2Num(16)} }
    \cup
    { [DefaultItem EXCEPT !.uses24V = uses, !.current24V = amps,
                          !.quantity = Int2Num(2)] :
        uses \in BOOLEAN,
        amps \in {Num(5, 10), Num(25, 13)} }

\* Flagged rows with a demand factor below 1, a negative quantity and a
\* cleared current field, and one drawing 1.925 A (recommended 2.5025 A).
DcOddItems ==
    { [DefaultItem EXCEPT !.uses24V = TRUE, !.current24V = Int2Num(1),
                          !.kx = Num(5, 10)],
      [DefaultItem EXCEPT !.uses24V = TRUE, !.current24V = Num(1925, 1000)],
      [DefaultItem EXCEPT !.uses24V = TRUE, !.current24V = Int2Num(1),
                          !.quantity = Int2Num(-1)],
      [DefaultItem EXCEPT !.uses24V = TRUE, !.current24V = NaN] }

DcItems == DcGridItems \cup DcOddItems

DcLoadLists == UNION { [1..n -> DcItems] : n \in 0..MaxDcLoads }

DcConfigs ==
    { DefaultConfig,
      [DefaultConfig EXCEPT !.systemVoltage = Int2Num(220),
                            !.marginFactor = Num(15, 10)] }

DcInit ==
    /\ loads \in DcLoadLists
    /\ config \in DcConfigs
    /\ result = NoResult
    /\ calc = NoResult
    /\ rowRec = NoResult
    /\ TablesInit
    /\ call = NoCall
    /\ ret = NoResult
    /\ projectFile = NoFile
    /\ saved = NoResult
    /\ LibraryClosed

CalculateDC24V ==
    /\ ret' = [fn |-> "calculateDC24V", value |-> dc24vCalculation(loads)]
    /\ UNCHANGED <<loads, config, result, calc, rowRec, tables, call, project, library>>

DcNext == CalculateDC24V \/ PerformSystemCalculation

DcSpec == DcInit /\ [][DcNext]_vars

-----------------------------------------------------------------------------
(* The project document: saveProject and handleFileImport (src/App.tsx) *)

\* JSON.stringify of a number-typed value: a number literal for a finite
\* number, null for NaN, the infinities and null, and no property at all for
\* undefined.
stringifyNumber(v) ==
    CASE v.t = "num" -> [json |-> "number", n |-> v.n, d |-> v.d]
      [] v.t \in {"NaN", "Infinity", "null"} -> [json |-> "null", n |-> 0, d |-> 1]
      [] v.t = "undefined" -> [json |-> "absent", n |-> 0, d |-> 1]

\* JSON.parse of what stringifyNumber wrote, as the property reads afterwards.
parseNumber(j) ==
    CASE j.json = "number" -> Num(j.n, j.d)
      [] j.json = "null" -> null
      [] j.json = "absent" -> undefined

\* A string or boolean property, written as its literal.
stringifyLiteral(v) == [json |-> "literal", v |-> v]

parseLiteral(j) == j.v

NumberFields == {"powerKw", "ratedAmps", "voltage", "quantity", "kx", "cosPhi",
                 "current24V"}

stringifyItem(item) ==
    [f \in DOMAIN item |->
        IF f \in NumberFields THEN stringifyNumber(item[f])
        ELSE stringifyLiteral(item[f])]

parseItem(j) ==
    [f \in DOMAIN j |->
        IF f \in NumberFields THEN parseNumber(j[f]) ELSE parseLiteral(j[f])]

stringifyConfig(cfg) == [f \in DOMAIN cfg |-> stringifyNumber(cfg[f])]

parseConfig(j) == [f \in DOMAIN j |-> parseNumber(j[f])]

\* JSON.stringify(projectData, null, 2)
stringifyProject(cfg, ls, now) ==
    [version |-> "1.0", timestamp |-> now, config |-> stringifyConfig(cfg),
     loads |-> [i \in 1..Len(ls) |-> stringifyItem(ls[i])]]

\* JSON.parse(content)
parseProject(content) ==
    [version |-> content.version, timestamp |-> content.timestamp,
     config |-> parseConfig(content.config),
     loads |-> [i \in 1..Len(content.loads) |-> parseItem(content.loads[i])]]

\* parseInt of the text of the quantity field; the cleared field gives NaN.
parseInt(text) ==
    CASE text = "" -> NaN
      [] text = "2" -> Int2Num(2)

QuantityTexts == {""}

\* new Date().toISOString() at the moment of saving
Clock == {"2024-01-01T00:00:00.000Z", "2024-01-02T00:00:00.000Z"}

\* Longest load collection on screen.
MaxProjectLoads == 2

ProjectItems ==
    { DefaultItem,
      [DefaultItem EXCEPT !.powerKw = Num(75, 100), !.uses24V = TRUE,
                          !.current24V = Int2Num(1)],
      [DefaultItem EXCEPT !.inputMode = InputMode.AMP, !.ratedAmps = Int2Num(10),
                          !.cosPhi = NaN] }

\* Rows carry distinct ids.
ProjectLoadLists ==
    UNION { { [i \in 1..n |-> [f[i] EXCEPT !.id = ToString(i)]] :
                f \in [1..n -> ProjectItems] } : n \in 0..MaxProjectLoads }

ProjectConfigs ==
    { DefaultConfig,
      [DefaultConfig EXCEPT !.systemVoltage = Int2Num(220)],
      [DefaultConfig EXCEPT !.marginFactor = NaN] }

\* The screen after the calculation effect has run on the loads and config.
ProjectInit ==
    /\ TablesInit
    /\ loads \in ProjectLoadLists
    /\ config \in ProjectConfigs
    /\ calc = systemCalculation(loads, config)
    /\ result = calc.returned
    /\ rowRec = NoResult
    /\ call = NoCall
    /\ ret = NoResult
    /\ projectFile = NoFile
    /\ saved = NoResult
    /\ LibraryClosed

\* updateLoad(id, 'quantity', parseInt(e.target.value)), and the effect that
\* recalculates.
UpdateLoad ==
    \E i \in 1..Len(loads), text \in QuantityTexts :
        /\ loads' = [k \in 1..Len(loads) |->
                        IF loads[k].id = loads[i].id
                        THEN [loads[k] EXCEPT !.quantity = parseInt(text)]
                        ELSE loads[k]]
        /\ calc' = systemCalculation(loads', config)
        /\ result' = calc'.returned
        /\ call' = [fn |-> "updateLoad", confirmed |-> FALSE]
        /\ UNCHANGED <<config, rowRec, tables, ret, project, library>>

SaveProject ==
    \E now \in Clock :
        /\ projectFile' = stringifyProject(config, loads, now)
        /\ saved' = [config |-> config, loads |-> loads, result |-> result]
        /\ call' = [fn |-> "saveProject", confirmed |-> FALSE]
        /\ UNCHANGED <<loads, config, result, calc, rowRec, tables, ret,
                       library>>

\* handleFileImport on the document last saved: the parsed config and loads
\* replace the ones on screen when the user confirms, and the effect
\* recalculates.
HandleFileImport ==
    /\ projectFile # NoFile
    /\ \E confirmed \in BOOLEAN :
        LET data == parseProject(projectFile)
        IN  /\ call' = [fn |-> "handleFileImport", confirmed |-> confirmed]
            /\ IF confirmed
               THEN /\ config' = data.config
                    /\ loads' = data.loads
                    /\ calc' = systemCalculation(loads', config')
                    /\ result' = calc'.returned
               ELSE UNCHANGED <<config, loads, calc, result>>
            /\ UNCHANGED <<rowRec, tables, ret, project, library>>

ProjectNext == UpdateLoad \/ SaveProject \/ HandleFileImport

ProjectSpec == ProjectInit /\ [][ProjectNext]_vars

-----------------------------------------------------------------------------
(* The equipment library and the load table of the form (src/App.tsx) *)

\* A record of the library or of the load table, from its properties.
Equipment(name, type, mode, kw, amps, follow, voltage, kx, cos, dc, dcAmps) ==
    [name |-> name, type |-> type, inputMode |-> mode, powerKw |-> kw,
     ratedAmps |-> amps, useSystemVoltage |-> follow, voltage |-> voltage,
     kx |-> kx, cosPhi |-> cos, uses24V |-> dc, current24V |-> dcAmps]

\* rec extended by (or with its own value replaced at) the property f.
With(rec, f, v) ==
    [g \in DOMAIN rec \cup {f} |-> IF g = f THEN v ELSE rec[g]]

\* rec without the properties in fs.
Without(rec, fs) == [g \in DOMAIN rec \ fs |-> rec[g]]

DEFAULT_LIBRARY ==
    << With(Equipment("0.75kW motor", LoadType.MOTOR, InputMode.KW, Num(75, 100),
                      Int2Num(0), TRUE, Int2Num(380), Int2Num(1), Num(8, 10),
                      FALSE, Int2Num(0)), "libId", "default-01"),
       With(Equipment("5.5kW motor", LoadType.MOTOR, InputMode.KW, Num(55, 10),
                      Int2Num(0), TRUE, Int2Num(380), Int2Num(1), Num(82, 100),
                      FALSE, Int2Num(0)), "libId", "default-02"),
       With(Equipment("15kW large motor", LoadType.MOTOR, InputMode.KW,
                      Int2Num(15), Int2Num(0), TRUE, Int2Num(380), Int2Num(1),
                      Num(85, 100), FALSE, Int2Num(0)), "libId", "default-03"),
       With(Equipment("servo drive (1kW)", LoadType.SERVO, InputMode.KW,
                      Int2Num(1), Int2Num(0), TRUE, Int2Num(380), Num(6, 10),
                      Num(9, 10), TRUE, Int2Num(1)), "libId", "default-04"),
       With(Equipment("inverter (7.5kW)", LoadType.Other, InputMode.KW,
                      Num(75, 10), Int2Num(0), TRUE, Int2Num(380), Num(9, 10),
                      Num(95, 100), TRUE, Num(5, 10)), "libId", "default-05"),
       With(Equipment("heater (2kW 220V)", LoadType.HEATER, InputMode.KW,
                      Int2Num(2), Int2Num(0), FALSE, Int2Num(220), Num(8, 10),
                      Int2Num(1), FALSE, Int2Num(0)), "libId", "default-06"),
       With(Equipment("solenoid valve / control supply", LoadType.Other,
                      InputMode.KW, Num(1, 10), Int2Num(0), FALSE, Int2Num(220),
                      Int2Num(1), Num(9, 10), TRUE, Int2Num(5)),
            "libId", "default-07") >>

\* A row of EXAMPLE_LOADS: the equipment with its id and quantity.
ExampleRow(id, quantity, equipment) ==
    With(With(equipment, "id", id), "quantity", quantity)

EXAMPLE_LOADS ==
    << ExampleRow("1", Int2Num(1),
           Equipment("hydraulic pump motor", LoadType.MOTOR, InputMode.KW,
                     Num(55, 10), Int2Num(0), TRUE, Int2Num(380), Int2Num(1),
                     Num(8, 10), FALSE, Int2Num(0))),
       ExampleRow("2", Int2Num(6),
           Equipment("heater group A", LoadType.HEATER, InputMode.KW, Int2Num(2),
                     Int2Num(0), FALSE, Int2Num(220), Num(8, 10), Int2Num(1),
                     FALSE, Int2Num(0))),
       ExampleRow("3", Int2Num(1),
           Equipment("device of unknown power", LoadType.Other, InputMode.AMP,
                     Int2Num(0), Int2Num(10), FALSE, Int2Num(220), Int2Num(1),
                     Num(9, 10), FALSE, Int2Num(0))),
       ExampleRow("4", Int2Num(2),
           Equipment("servo drive", LoadType.SERVO, InputMode.KW, Num(15, 10),
                     Int2Num(0), TRUE, Int2Num(380), Num(6, 10), Num(9, 10),
                     TRUE, Num(15, 10))),
       ExampleRow("5", Int2Num(1),
           Equipment("control system and HMI", LoadType.Other, InputMode.KW,
                     Num(2, 10), Int2Num(0), FALSE, Int2Num(220), Int2Num(1),
                     Num(9, 10), TRUE, Int2Num(2))) >>

\* JSON.stringify of the library, as the persistence effect writes it.
stringifyLibrary(lib) ==
    [json |-> "array", items |-> [i \in 1..Len(lib) |-> stringifyItem(lib[i])]]

\* JSON.parse of a stored array.
parseLibrary(stored) == [i \in 1..Len(stored.items) |-> parseItem(stored.items[i])]

\* A stored text that JSON.parse rejects.
CorruptDocument == [json |-> "corrupt"]

\* The values of the Map the initializer fills: entries without a name are
\* skipped, one value per name in the order in which the names first appear,
\* and each value the last entry of that name.
mapValues(data) ==
    LET named == SelectSeq(data, LAMBDA item : item.name # "")
        first == [i \in 1..Len(named) |->
                    \A j \in 1..(i - 1) : named[j].name # named[i].name]
        last(i) == CHOOSE j \in i..Len(named) :
                      /\ named[j].name = named[i].name
                      /\ \A k \in (j + 1)..Len(named) :
                            named[k].name # named[i].name
        values[i \in 0..Len(named)] ==
            IF i = 0 THEN <<>>
            ELSE IF first[i] THEN Append(values[i - 1], named[last(i)])
                 ELSE values[i - 1]
    IN  values[Len(named)]

\* Date.now() at tick t of the clock: the clock runs in half milliseconds and
\* Date.now() gives whole ones.
dateNow(t) == t \div 2

\* Date.now() as text.  The clock counts from 1 700 000 000 000 ms, a value
\* beyond the integers of the model.
msString(now) == "170000000000" \o ToString(now)

\* The library identifier the initializer gives the entry at index.
initialLibId(now, index, random) ==
    "lib-" \o msString(now) \o "-" \o ToString(index) \o "-" \o random

\* What the initializer cleans: the stored list, or the default library when
\* nothing is stored.
initialData(stored) ==
    IF stored = NoFile THEN DEFAULT_LIBRARY ELSE parseLibrary(stored)

\* The number of entries the initializer keeps, one random string each.
keptCount(stored) ==
    IF stored = CorruptDocument THEN 0 ELSE Len(mapValues(initialData(stored)))

\* Variant: a stored entry keeps the identifier it was stored with.
libraryInitializer_keepIds(stored, now, randoms) ==
    IF stored = CorruptDocument THEN <<>>
    ELSE mapValues(initialData(stored))

\* The initializer of customLibrary: what it returns for the stored text, the
\* clock and the random strings drawn; a text that does not parse gives the
\* empty library.
libraryInitializer(stored, now, randoms) ==
    IF stored = CorruptDocument THEN <<>>
    ELSE LET kept == mapValues(initialData(stored))
         IN  [i \in 1..Len(kept) |->
                With(kept[i], "libId", initialLibId(now, i - 1, randoms[i]))]

\* The library identifier saveToLibrary gives a new entry.
savedLibId(now, random) == "lib-" \o msString(now) \o "-" \o random

isDuplicate(lib, item) == \E i \in 1..Len(lib) : lib[i].name = item.name

\* Variant: an overwrite appends the new entry and keeps the old ones.
saveToLibrary_keepOld(lib, item, confirmOverwrite, now, random) ==
    LET newItem == With(Without(item, {"id", "quantity"}), "libId",
                        savedLibId(now, random))
    IN  IF isDuplicate(lib, item) /\ ~confirmOverwrite THEN lib
        ELSE Append(lib, newItem)

\* The library saveToLibrary leaves for the row item, the answer to the
\* overwrite question, the clock and the random string drawn.
saveToLibrary(lib, item, confirmOverwrite, now, random) ==
    LET newItem == With(Without(item, {"id", "quantity"}), "libId",
                        savedLibId(now, random))
    IN  IF isDuplicate(lib, item)
        THEN IF ~confirmOverwrite THEN lib
             ELSE Append(SelectSeq(lib, LAMBDA l : l.name # item.name), newItem)
        ELSE Append(lib, newItem)

deleteFromLibrary(lib, libId) ==
    IF libId = "" THEN lib
    ELSE SelectSeq(lib, LAMBDA item : item.libId # libId)

\* The row importFromLibrary appends to the load table.
importedRow(libItem, now) ==
    With(With(Without(libItem, {"libId"}), "id", msString(now)),
         "quantity", Int2Num(1))

\* Longest library and last tick of the clock in a run on the library.
MaxLibrary == 8
MaxClock == 2

\* Strings Math.random gives, and the strings one run of the initializer
\* draws for n entries: the same one every time, or the two in turn.
Randoms == {"k3x9q", "p0w7d"}

RandomStreams(n) ==
    { [i \in 1..n |-> "k3x9q"],
      [i \in 1..n |-> IF i % 2 = 1 THEN "p0w7d" ELSE "k3x9q"] }

\* The tick at which the next operation happens, up to the last tick max.
Later(max) == { t \in {clock + 1} : t <= max }

\* Rows the user saves: an example row, a row imported from the library under
\* its library name (here with an edited power), and a row whose name field
\* was cleared.
SavedRows ==
    { EXAMPLE_LOADS[1],
      [importedRow(DEFAULT_LIBRARY[1], 0) EXCEPT !.powerKw = Num(11, 10)],
      [EXAMPLE_LOADS[2] EXCEPT !.name = ""] }

\* Texts found under 'elecMaster_library' when the form opens: nothing, a
\* damaged text, libraries written by earlier sessions, and a list written by
\* an older build that holds one name twice and a nameless entry.
StoredDocuments ==
    { NoFile, CorruptDocument,
      stringifyLibrary(<<>>),
      stringifyLibrary(<<DEFAULT_LIBRARY[1], DEFAULT_LIBRARY[2]>>),
      stringifyLibrary(<<DEFAULT_LIBRARY[1],
                         [DEFAULT_LIBRARY[2] EXCEPT !.name = ""],
                         [DEFAULT_LIBRARY[1] EXCEPT !.powerKw = Int2Num(1),
                                                !.libId = "default-01"]>>) }

\* The form opens: the state initializers run (the load table starts from
\* EXAMPLE_LOADS, the library from the stored text), then the calculation
\* effect and the persistence effect.
FormOpens(documents) ==
    /\ TablesInit
    /\ loads = EXAMPLE_LOADS
    /\ config = DefaultConfig
    /\ calc = systemCalculation(loads, config)
    /\ result = calc.returned
    /\ rowRec = NoResult
    /\ ret = NoResult
    /\ projectFile = NoFile
    /\ saved = NoResult
    /\ clock = 0
    /\ call = [fn |-> "App", name |-> "", duplicate |-> FALSE,
               confirmed |-> FALSE]
    /\ \E found \in documents :
         \E randoms \in RandomStreams(keptCount(found)) :
            /\ customLibrary = libraryInitializer(found, dateNow(clock), randoms)
            /\ storage = stringifyLibrary(customLibrary)

LibraryInit == FormOpens(StoredDocuments)

\* The page is loaded again: as when the form opens, from the text the last
\* session stored.
Reload ==
    /\ loads' = EXAMPLE_LOADS
    /\ config' = DefaultConfig
    /\ calc' = IF loads' = loads /\ config' = config THEN calc
               ELSE systemCalculation(loads', config')
    /\ result' = calc'.returned
    /\ call' = [fn |-> "App", name |-> "", duplicate |-> FALSE,
                confirmed |-> FALSE]
    /\ \E now \in Later(MaxClock) :
         \E randoms \in RandomStreams(keptCount(storage)) :
            /\ clock' = now
            /\ customLibrary' =
                  libraryInitializer(storage, dateNow(now), randoms)
            /\ storage' = stringifyLibrary(customLibrary')
    /\ UNCHANGED <<rowRec, tables, ret, project>>

\* saveToLibrary on a row, with the answer given to the overwrite question;
\* the persistence effect follows a change of the library.
SaveToLibrary ==
    \E item \in SavedRows, confirmOverwrite \in BOOLEAN, random \in Randoms :
        \E now \in Later(MaxClock) :
            /\ isDuplicate(customLibrary, item) \/ Len(customLibrary) < MaxLibrary
            /\ isDuplicate(customLibrary, item) \/ confirmOverwrite
            /\ customLibrary' =
                  saveToLibrary(customLibrary, item, confirmOverwrite,
                                dateNow(now), random)
            /\ storage' =
                  IF isDuplicate(customLibrary, item) /\ ~confirmOverwrite
                  THEN storage ELSE stringifyLibrary(customLibrary')
            /\ clock' = now
            /\ call' = [fn |-> "saveToLibrary", name |-> item.name,
                        duplicate |-> isDuplicate(customLibrary, item),
                        confirmed |-> isDuplicate(customLibrary, item)
                                        /\ confirmOverwrite]
            /\ UNCHANGED <<loads, config, result, calc, rowRec, tables, ret,
                           project>>

\* deleteFromLibrary from the delete button of an entry.
DeleteFromLibrary ==
    \E i \in 1..Len(customLibrary), now \in Later(MaxClock) :
        /\ clock' = now
        /\ customLibrary' = deleteFromLibrary(customLibrary, customLibrary[i].libId)
        /\ storage' = stringifyLibrary(customLibrary')
        /\ call' = [fn |-> "deleteFromLibrary", name |-> customLibrary[i].name,
                    duplicate |-> FALSE, confirmed |-> FALSE]
        /\ UNCHANGED <<loads, config, result, calc, rowRec, tables, ret,
                       project>>

LibraryNext == Reload \/ SaveToLibrary \/ DeleteFromLibrary

LibrarySpec == LibraryInit /\ [][LibraryNext]_vars

\* The load table after addLoad at the clock reading now.
addLoad(ls, now) ==
    Append(ls, ExampleRow(msString(now), Int2Num(1),
                   Equipment("new load", LoadType.MOTOR, InputMode.KW,
                             Num(75, 100), Int2Num(0), TRUE, Int2Num(380),
                             Int2Num(1), Num(8, 10), FALSE, Int2Num(0))))

removeLoad(ls, id) == SelectSeq(ls, LAMBDA l : l.id # id)

updateLoad(ls, id, field, value) ==
    [k \in 1..Len(ls) |-> IF ls[k].id = id THEN With(ls[k], field, value)
                          ELSE ls[k]]

importFromLibrary(ls, libItem, now) == Append(ls, importedRow(libItem, now))

\* Libraries found when the form opens for work on the load table: an empty
\* one, and one left with four of the default entries.  Their power factors
\* are 0.8, 0.9 and 1, which keeps the exact fractions of the calculation
\* within the integers TLC computes with.
TableDocuments ==
    { stringifyLibrary(<<>>),
      stringifyLibrary(<<DEFAULT_LIBRARY[1], DEFAULT_LIBRARY[4],
                         DEFAULT_LIBRARY[6], DEFAULT_LIBRARY[7]>>) }

LoadsInit == FormOpens(TableDocuments)

\* Longest load table, and last tick of the clock in a run on the table.
MaxTableLoads == 6
MaxTableClock == 3

\* Texts typed into the name field of a row.
NameTexts == {"pump"}

\* The calculation effect: it runs whenever loads or config changed.
Recalculate ==
    /\ calc' = IF loads' = loads /\ config' = config THEN calc
               ELSE systemCalculation(loads', config')
    /\ result' = calc'.returned

AddLoad ==
    \E now \in Later(MaxTableClock) :
        /\ Len(loads) < MaxTableLoads
        /\ clock' = now
        /\ loads' = addLoad(loads, dateNow(now))
        /\ UNCHANGED <<config, rowRec, tables, call, ret, project,
                       customLibrary, storage>>
        /\ Recalculate

ImportFromLibrary ==
    \E i \in 1..Len(customLibrary), now \in Later(MaxTableClock) :
        /\ Len(loads) < MaxTableLoads
        /\ clock' = now
        /\ loads' = importFromLibrary(loads, customLibrary[i], dateNow(now))
        /\ UNCHANGED <<config, rowRec, tables, call, ret, project,
                       customLibrary, storage>>
        /\ Recalculate

RemoveLoad ==
    \E i \in 1..Len(loads), now \in Later(MaxTableClock) :
        /\ clock' = now
        /\ loads' = removeLoad(loads, loads[i].id)
        /\ UNCHANGED <<config, rowRec, tables, call, ret, project,
                       customLibrary, storage>>
        /\ Recalculate

\* updateLoad from the name field of a row.
UpdateLoadName ==
    \E i \in 1..Len(loads), text \in NameTexts, now \in Later(MaxTableClock) :
        /\ clock' = now
        /\ loads' = updateLoad(loads, loads[i].id, "name", text)
        /\ UNCHANGED <<config, rowRec, tables, call, ret, project,
                       customLibrary, storage>>
        /\ Recalculate

LoadsNext == AddLoad \/ ImportFromLibrary \/ RemoveLoad \/ UpdateLoadName

LoadsSpec == LoadsInit /\ [][LoadsNext]_vars

-----------------------------------------------------------------------------
(* Properties *)

\* Sum of calculateRowActivePower over the rows, first row first.
RECURSIVE SumOfRows(_, _)
SumOfRows(ls, systemVoltage) ==
    IF ls = <<>> THEN Int2Num(0)
    ELSE Add(calculateRowActivePower(Head(ls), systemVoltage),
             SumOfRows(Tail(ls), systemVoltage))

\* Sum of the rows each rounded to 2 decimals on its own.
RECURSIVE SumOfRoundedRows(_, _)
SumOfRoundedRows(ls, systemVoltage) ==
    IF ls = <<>> THEN Int2Num(0)
    ELSE Add(Number(toFixed(calculateRowActivePower(Head(ls), systemVoltage), 2)),
             SumOfRoundedRows(Tail(ls), systemVoltage))

Called == result # NoResult

\* C1: totalActivePower is the sum of calculateRowActivePower over all loads,
\* rounded once to 2 decimals at the result boundary, without the margin factor.
C1_TotalActivePowerIsRoundedSum ==
    Called =>
        result.totalActivePower =
            Number(toFixed(SumOfRows(loads, config.systemVoltage), 2))

\* Two rows of 0.004 kW: the total 0.008 rounds to 0.01 although each row
\* rounds to 0, with a margin factor other than 1.
C1_Witness ==
    /\ Called
    /\ Len(loads) = 2
    /\ result.totalActivePower = Num(1, 100)
    /\ SumOfRoundedRows(loads, config.systemVoltage) = Int2Num(0)
    /\ config.marginFactor # Int2Num(1)

\* C2: the unrounded main current is design power x 1000 / (220 x avg cos) at
\* a system voltage of exactly 220 and design power x 1000 / (1.732 x system
\* voltage x avg cos) at every other one, design power being the raw total
\* real power x margin factor.
C2_MainCurrentFormula ==
    Called =>
        LET design == Mul(SumOfRows(loads, config.systemVoltage), config.marginFactor)
            watts == Mul(design, Int2Num(1000))
            avg == calc.avgCosPhi
        IN  calc.mainCurrent =
                IF config.systemVoltage = Int2Num(220)
                THEN Div(watts, Mul(Int2Num(220), avg))
                ELSE Div(watts, Mul(Mul(Num(1732, 1000), config.systemVoltage), avg))

\* A system voltage that is neither 220 nor three-phase by the 300 V
\* threshold, with a finite non-zero main current.
C2_Witness ==
    /\ Called
    /\ config.systemVoltage = Int2Num(110)
    /\ calc.mainCurrent.t = "num"
    /\ calc.mainCurrent.n > 0

StandardRatings ==
    {6, 10, 16, 20, 25, 32, 40, 50, 63, 80, 100, 125, 160, 200, 250, 315, 400, 630}

Min(S) == CHOOSE x \in S : \A y \in S : x <= y

RulePE(S) ==
    IF S.n <= 16 * S.d THEN S
    ELSE IF S.n <= 35 * S.d THEN Int2Num(16)
    ELSE Num(S.n, 2 * S.d)

\* C5: the protective-earth cross-section is S for S <= 16, 16 for
\* 16 < S <= 35 and S/2 above 35, and the cable label carries that value for
\* the selected phase cross-section.
C5_ProtectiveEarthSize ==
    /\ (call.fn = "getPESize" /\ ret # NoResult) =>
            ret.peMm2 = RulePE(call.phaseMm2)
    /\ (call.fn = "selectCable" /\ ret # NoResult /\ ret # CableSentinel) =>
            ret.peMm2 = RulePE(ret.phaseMm2)
    /\ getPESize(Int2Num(16)) = Int2Num(16)
    /\ getPESize(Num(1601, 100)) = Int2Num(16)
    /\ getPESize(Int2Num(35)) = Int2Num(16)
    /\ getPESize(Num(3501, 100)) = Num(17505, 1000)

\* A cable label for the 35 mm2 entry, whose PE falls in the middle band.
C5_Witness ==
    /\ call.fn = "selectCable"
    /\ ret # NoResult
    /\ ret # CableSentinel
    /\ ret.phaseMm2 = Int2Num(35)
    /\ ret.peMm2 = Int2Num(16)

\* C6: an empty load collection gives totalActivePower 0, totalApparentPower 0
\* and mainCurrent 0, the 6 A breaker and the 1.5 mm2 cable, labelled for the
\* configured system voltage.
C6_EmptyCollection ==
    (Called /\ loads = <<>>) =>
        LET single == config.systemVoltage = Int2Num(220)
        IN  /\ result.totalActivePower = Int2Num(0)
            /\ result.totalApparentPower = Int2Num(0)
            /\ result.mainCurrent = Int2Num(0)
            /\ result.mainBreaker # BreakerSentinel
            /\ result.mainBreaker.size = Int2Num(6)
            /\ result.mainBreaker.poles = IF single THEN "2P" ELSE "3P"
            /\ result.mainCable # CableSentinel
            /\ result.mainCable.phaseMm2 = Num(15, 10)
            /\ result.mainCable.peMm2 = Num(15, 10)
            /\ result.mainCable.cores = IF single THEN 2 ELSE 3

C6_Witness ==
    /\ Called
    /\ loads = <<>>
    /\ config.systemVoltage = Int2Num(220)
    /\ result.mainBreaker.poles = "2P"

\* Every number field of every row holds a finite number.
InputsFinite(ls) ==
    \A i \in 1..Len(ls) : \A f \in NumberFields : ls[i][f].t = "num"

\* The rows with 0 written into every number field that holds no number.
ZeroFilled(ls) ==
    [i \in 1..Len(ls) |->
        [f \in DOMAIN ls[i] |->
            IF f \in NumberFields /\ ls[i][f].t # "num" THEN Int2Num(0)
            ELSE ls[i][f]]]

\* The rows with 0.8 written over every power factor of zero.
WithCos08(ls) ==
    [i \in 1..Len(ls) |->
        IF ls[i].cosPhi = Int2Num(0) THEN [ls[i] EXCEPT !.cosPhi = Num(8, 10)]
        ELSE ls[i]]

ResultNumbersFinite(r) ==
    /\ r.totalActivePower.t = "num"
    /\ r.totalApparentPower.t = "num"
    /\ r.mainCurrent.t = "num"
    /\ r.dc24v.totalCurrent.t = "num"
    /\ r.dc24v.recommendedCurrent.t = "num"

\* C7: a row with a missing or non-numeric number field is computed as if the
\* field were zero, and every numeric field of the result is finite.
C7_MissingFieldCountsAsZero ==
    Called =>
        /\ ResultNumbersFinite(result)
        /\ result = performSystemCalculation(ZeroFilled(loads), config)

\* C8: a row whose power factor is zero is handled exactly as a row whose
\* power factor is 0.8: the whole result is the one of the collection with 0.8
\* written over the zero, and with finite inputs nothing is divided by zero
\* (every number of the run is finite).
C8_ZeroCosPhiActsAs08 ==
    Called =>
        /\ result = performSystemCalculation(WithCos08(loads), config)
        /\ InputsFinite(loads) =>
                /\ ResultNumbersFinite(result)
                /\ calc.totalS.t = "num"
                /\ calc.avgCosPhi.t = "num"
                /\ calc.mainCurrent.t = "num"

\* A current-mode row with power factor zero that contributes real power.
C8_Witness ==
    /\ Called
    /\ \E i \in 1..Len(loads) :
            /\ loads[i].cosPhi = Int2Num(0)
            /\ loads[i].inputMode = InputMode.AMP
    /\ result.totalActivePower.t = "num"
    /\ result.totalActivePower.n > 0

\* The power factor a row's contribution is divided by.
EffectiveCos(item) == IF item.cosPhi = Int2Num(0) THEN Num(8, 10) ELSE item.cosPhi

\* Sum over the rows of row contribution / effective power factor.
RECURSIVE SumOfApparent(_, _)
SumOfApparent(ls, systemVoltage) ==
    IF ls = <<>> THEN Int2Num(0)
    ELSE Add(Div(calculateRowActivePower(Head(ls), systemVoltage), EffectiveCos(Head(ls))),
             SumOfApparent(Tail(ls), systemVoltage))

RuleVoltage(item, systemVoltage) ==
    IF item.useSystemVoltage THEN systemVoltage ELSE item.voltage

RuleK(U) == IF U.n >= 300 * U.d THEN Num(1732, 1000) ELSE Int2Num(1)

RuleCos(item) == IF item.cosPhi.n = 0 THEN Num(8, 10) ELSE item.cosPhi

\* C11: for a current-mode row getItemEquivalentKw returns current x U x k x
\* cos / 1000, U being the system voltage when the row follows the system and
\* the row's own voltage otherwise, k = 1.732 exactly when U >= 300 and 1
\* otherwise, cos the row's power factor or 0.8 when that is zero.
C11_CurrentModeEquivalentKw ==
    (ret # NoResult /\ ret.fn = "getItemEquivalentKw"
        /\ loads[ret.row].inputMode = InputMode.AMP) =>
        LET item == loads[ret.row]
            U == RuleVoltage(item, config.systemVoltage)
            amps == Mul(item.ratedAmps, Mul(RuleK(U), RuleCos(item)))
        IN  ret.value = Div(Mul(U, amps), Int2Num(1000))

\* A row at exactly 300 V of its own on a 220 V system, power factor zero:
\* 10 A x 300 V x 1.732 x 0.8 / 1000 = 4.1568 kW.
C11_Witness ==
    /\ ret # NoResult
    /\ ret.fn = "getItemEquivalentKw"
    /\ loads[1].inputMode = InputMode.AMP
    /\ ~loads[1].useSystemVoltage
    /\ loads[1].voltage = Int2Num(300)
    /\ config.systemVoltage = Int2Num(220)
    /\ loads[1].cosPhi = Int2Num(0)
    /\ ret.value = Num(41568, 10000)

\* The equivalent power of a row as the claims word it: the declared power in
\* power mode, current x U x k x cos / 1000 in current mode.
RuleKw(item, systemVoltage) ==
    IF item.inputMode = InputMode.KW THEN item.powerKw
    ELSE LET U == RuleVoltage(item, systemVoltage)
             amps == Mul(item.ratedAmps, Mul(RuleK(U), RuleCos(item)))
         IN  Div(Mul(U, amps), Int2Num(1000))

\* The product a x b x c of three finite numbers, from their numerators and
\* denominators.
Product3(a, b, c) == Num(a.n * b.n * c.n, a.d * b.d * c.d)

\* C12: calculateRowActivePower is equivalent power x quantity x Kx with no
\* clamping: a Kx above 1 or a quantity of zero or less enters the product as
\* it is, and the total of a one-row collection is that product (rounded to
\* 2 decimals).
C12_RowPowerUnclamped ==
    /\ (ret # NoResult /\ ret.fn = "calculateRowActivePower") =>
            LET item == loads[ret.row]
            IN  ret.value = Product3(RuleKw(item, config.systemVoltage),
                                     item.quantity, item.kx)
    /\ (Called /\ Len(loads) = 1) =>
            result.totalActivePower =
                Number(toFixed(Product3(RuleKw(loads[1], config.systemVoltage),
                                        loads[1].quantity, loads[1].kx), 2))

\* A 5.5 kW row with quantity -1 and Kx 1.5: the row and the system total are
\* both -8.25 kW.
C12_Witness ==
    /\ ret # NoResult
    /\ ret.fn = "calculateRowActivePower"
    /\ loads[1].quantity = Int2Num(-1)
    /\ loads[1].kx = Num(15, 10)
    /\ ret.value = Num(-825, 100)
    /\ Called
    /\ result.totalActivePower = Num(-825, 100)

\* Rank of a selectMainBreaker result: its rating, the out-of-range sentinel
\* above every rating.
BreakerRank(b) == IF b = BreakerSentinel THEN 631 ELSE b.size.n

\* Currents the selected one is compared with: every standard rating, half an
\* ampere to either side of it, zero and a negative current.
ProbeCurrents ==
    { Num(2 * r + e, 2) : r \in StandardRatings \cup {0}, e \in {-1, 0, 1} }

\* C13: for two currents a <= b at the same system voltage the breaker chosen
\* for b ranks no lower than the one chosen for a, the out-of-range sentinel
\* ranking above every standard rating.
C13_BreakerMonotone ==
    (call.fn = "selectMainBreaker" /\ ret # NoResult) =>
        \A a \in ProbeCurrents :
            LET forA == selectMainBreaker(a, call.voltage)
            IN  /\ a.n * call.current.d <= call.current.n * a.d =>
                        BreakerRank(forA) <= BreakerRank(ret)
                /\ call.current.n * a.d <= a.n * call.current.d =>
                        BreakerRank(ret) <= BreakerRank(forA)

\* A current just above 630 A gets the sentinel, which ranks above the 630 A
\* breaker chosen for 630 A.
C13_Witness ==
    /\ call.fn = "selectMainBreaker"
    /\ call.current = Num(1261, 2)
    /\ ret = BreakerSentinel
    /\ BreakerRank(selectMainBreaker(Int2Num(630), call.voltage)) = 630

\* Sum over the flagged rows of current24V x quantity, first row first.
RECURSIVE RuleTotal24V(_)
RuleTotal24V(ls) ==
    IF ls = <<>> THEN Int2Num(0)
    ELSE IF Head(ls).uses24V
         THEN Add(Mul(Head(ls).current24V, Head(ls).quantity), RuleTotal24V(Tail(ls)))
         ELSE RuleTotal24V(Tail(ls))

Dc24VCalled == ret # NoResult /\ ret.fn = "calculateDC24V"

\* C14: the 24V total current is the sum of current24V x quantity over exactly
\* the rows whose uses24V flag is set (reported rounded to 2 decimals); rows
\* without the flag add nothing, and neither Kx nor the project configuration
\* enters the sum.
C14_Total24VIsFlaggedSum ==
    /\ Dc24VCalled =>
            /\ ret.value.totalAmps = RuleTotal24V(loads)
            /\ ret.value.returned.totalCurrent =
                    Number(toFixed(RuleTotal24V(loads), 2))
    /\ Called =>
            result.dc24v.totalCurrent = Number(toFixed(RuleTotal24V(loads), 2))

\* A flagged 1 A row with Kx 0.5 next to an unflagged 16 A row, on the 220 V
\* configuration: the total is 1 A.
C14_Witness ==
    /\ Dc24VCalled
    /\ Called
    /\ config.systemVoltage = Int2Num(220)
    /\ Len(loads) = 2
    /\ loads[1].uses24V /\ loads[1].kx = Num(5, 10)
    /\ ~loads[2].uses24V /\ loads[2].current24V = Int2Num(16)
    /\ ret.value.totalAmps = Int2Num(1)
    /\ result.dc24v.totalCurrent = Int2Num(1)

\* a - b
Minus(a, b) == Add(a, Mul(Int2Num(-1), b))

\* |a - b| <= eps, for finite numbers
Within(a, b, eps) == Le(Minus(a, b), eps) /\ Le(Minus(b, a), eps)

\* C15 as stated: the reported recommendedCurrent is the reported totalCurrent
\* x 1.3, up to floating-point rounding (here one part in a million).
C15_RecommendedIsReportedTotalTimes13 ==
    (Dc24VCalled /\ ret.value.returned.totalCurrent.t = "num") =>
        /\ ret.value.returned.recommendedCurrent.t = "num"
        /\ Within(ret.value.returned.recommendedCurrent,
                  Mul(ret.value.returned.totalCurrent, Num(13, 10)),
                  Num(1, 1000000))

\* C15 amended: recommendedCurrent is the unrounded total x 1.3 rounded to 2
\* decimals, totalCurrent being the unrounded total rounded to 2 decimals; the
\* two reported values therefore differ from the 1.3 ratio by at most 0.0115,
\* and satisfy it exactly when the unrounded total has at most one decimal.
C15_RecommendedAmended ==
    Dc24VCalled =>
        LET raw == RuleTotal24V(loads)
            tot == ret.value.returned.totalCurrent
            rec == ret.value.returned.recommendedCurrent
        IN  /\ tot = Number(toFixed(raw, 2))
            /\ rec = Number(toFixed(Mul(raw, Num(13, 10)), 2))
            /\ raw.t = "num" =>
                    /\ Within(rec, Mul(tot, Num(13, 10)), Num(115, 10000))
                    /\ (10 % raw.d = 0) => rec = Mul(tot, Num(13, 10))

\* One flagged row drawing 0.05 A: totalCurrent 0.05, recommendedCurrent 0.07
\* (0.065 rounded), not 0.065.
C15_Witness ==
    /\ Dc24VCalled
    /\ Len(loads) = 1
    /\ ret.value.totalAmps = Num(5, 100)
    /\ ret.value.returned.totalCurrent = Num(5, 100)
    /\ ret.value.returned.recommendedCurrent = Num(7, 100)

\* The least whole number m with m >= r, for a finite r.
RuleCeil(r) == CHOOSE m \in ((r.n \div r.d) - 1)..((r.n \div r.d) + 1) :
                    m * r.d >= r.n /\ (m - 1) * r.d < r.n

\* C16: the supply description follows the recommended current (the total x
\* 1.3 before rounding) by inclusive breakpoints: up to 2.5 A the 60W supply,
\* up to 5 A the 120W one, up to 10 A the 240W one, up to 20 A the 480W one,
\* and above 20 A the text with the current rounded up to a whole ampere and
\* the note to parallel supplies.
C16_SupplyByInclusiveBreakpoints ==
    (Dc24VCalled /\ ret.value.recommended.t = "num") =>
        LET r == ret.value.recommended
            desc == ret.value.returned.description
        IN  /\ r = Mul(RuleTotal24V(loads), Num(13, 10))
            /\ (2 * r.n <= 5 * r.d) => desc.text = "60W (2.5A) supply"
            /\ (2 * r.n > 5 * r.d /\ r.n <= 5 * r.d) =>
                    desc.text = "120W (5A) supply"
            /\ (r.n > 5 * r.d /\ r.n <= 10 * r.d) =>
                    desc.text = "240W (10A) supply"
            /\ (r.n > 10 * r.d /\ r.n <= 20 * r.d) =>
                    desc.text = "480W (20A) supply"
            /\ (r.n > 20 * r.d) =>
                    /\ desc.text = "{amps}A or more, parallel or larger supply"
                    /\ desc.amps = Int2Num(RuleCeil(r))

\* A recommended current of exactly 20 A still gets the 480W supply.
C16_Witness ==
    /\ Dc24VCalled
    /\ ret.value.recommended = Int2Num(20)
    /\ ret.value.returned.description.text = "480W (20A) supply"

\* C17: a breaker label that carries a rating reads '2P - <rating>A' and a
\* cable label that carries an entry reads '2x<phase>mm2 + 1x<PE>mm2' exactly
\* when the system voltage is 220; at every other system voltage they read
\* '3P - <rating>A' and '3x<phase>mm2 + 1x<PE>mm2'; the two labels of one
\* result agree on 2 versus 3.
C17_LabelsFollowSystemVoltage ==
    Called =>
        LET single == config.systemVoltage = Int2Num(220)
            breaker == result.mainBreaker
            cable == result.mainCable
        IN  /\ breaker # BreakerSentinel =>
                /\ breaker.text = "{poles} - {size}A"
                /\ breaker.poles = IF single THEN "2P" ELSE "3P"
                /\ breaker.size.n \in StandardRatings /\ breaker.size.d = 1
            /\ cable # CableSentinel =>
                /\ cable.text = "{cores}x{phase}mm2 + 1x{pe}mm2"
                /\ cable.cores = IF single THEN 2 ELSE 3
                /\ \E i \in 1..Len(CableTableData) :
                        cable.phaseMm2 = CableTableData[i][1]
            /\ (breaker # BreakerSentinel /\ cable # CableSentinel) =>
                (breaker.poles = "2P") <=> (cable.cores = 2)

\* A 110 V system with a load on it: both labels found, both for 3.
C17_Witness ==
    /\ Called
    /\ config.systemVoltage = Int2Num(110)
    /\ loads # <<>>
    /\ calc.mainCurrent.t = "num" /\ calc.mainCurrent.n > 0
    /\ result.mainBreaker # BreakerSentinel
    /\ result.mainCable # CableSentinel
    /\ result.mainBreaker.poles = "3P"
    /\ result.mainCable.cores = 3

Imported == call # NoCall /\ call.fn = "handleFileImport" /\ call.confirmed

\* C18: after a saved project document is loaded back with the import
\* confirmed, the config and loads on screen are exactly the ones that were
\* saved, and the recalculated CalculationResult is the one shown when saving.
C18_SaveLoadRoundTrip ==
    Imported =>
        /\ config = saved.config
        /\ loads = saved.loads
        /\ result = saved.result

\* The label of the largest contactor-table entry whose threshold is <= kw,
\* and the label of the table's first entry when kw is below every threshold.
RuleContactor(kw) ==
    LET reached == { i \in 1..Len(ContactorTableData) :
                        ContactorTableData[i][1].n * kw.d
                            <= kw.n * ContactorTableData[i][1].d }
    IN  IF reached = {} THEN ContactorTableData[1][2]
        ELSE ContactorTableData[CHOOSE i \in reached : \A j \in reached : j <= i][2]

MotorAdvised ==
    rowRec # NoResult /\ loads[rowRec.row].type = LoadType.MOTOR

\* C19: the contactor in a motor row's advice is the label of the largest
\* contactor-table entry whose power threshold is <= the row's equivalent kW,
\* and the label of the table's first entry when the kW is below 4.
C19_ContactorByThreshold ==
    (MotorAdvised /\ InputsFinite(loads)) =>
        rowRec.out.contactor =
            RuleContactor(RuleKw(loads[rowRec.row], config.systemVoltage))

\* The estimated motor current as the claim words it: the declared current in
\* current mode, kW x 1000 / (k x U x 0.8) in power mode.
RuleMotorCurrent(item, systemVoltage) ==
    IF item.inputMode = InputMode.AMP THEN item.ratedAmps
    ELSE LET U == RuleVoltage(item, systemVoltage)
         IN  Div(Mul(item.powerKw, Int2Num(1000)),
                 Mul(Mul(RuleK(U), U), Num(8, 10)))

OneCurrentRowFollowingSystem ==
    /\ Len(loads) = 1
    /\ loads[1].inputMode = InputMode.AMP
    /\ loads[1].useSystemVoltage

\* C23: for a collection of one current-mode row that follows the system
\* voltage, the unrounded main current is declared current x quantity x Kx x
\* margin factor at every system voltage: the aggregator and the power
\* normalizer make the same single-phase / three-phase choice.
C23_AggregatorMatchesNormalizer ==
    (Called /\ OneCurrentRowFollowingSystem /\ InputsFinite(loads)) =>
        calc.mainCurrent =
            Mul(Product3(loads[1].ratedAmps, loads[1].quantity, loads[1].kx),
                config.marginFactor)

\* The smallest standard rating that is at least x (0 when there is none).
RatingAtLeast(x) ==
    LET fits == { r \in StandardRatings : r * x.d >= x.n }
    IN  IF fits = {} THEN 0 ELSE Min(fits)

\* The smallest standard rating strictly above x (0 when there is none).
RatingAbove(x) ==
    LET fits == { r \in StandardRatings : r * x.d > x.n }
    IN  IF fits = {} THEN 0 ELSE Min(fits)

StandardBreakerReturned ==
    /\ Called
    /\ result.mainBreaker # BreakerSentinel
    /\ calc.mainCurrent.t = "num"

\* C24: in every result whose main breaker is a standard rating, that rating
\* is the smallest standard rating that is at least the main current reported
\* in the same result (the value rounded to one decimal).
C24_BreakerMatchesReportedCurrent ==
    StandardBreakerReturned =>
        result.mainBreaker.size = Int2Num(RatingAtLeast(result.mainCurrent))

\* C24 (amended): the rating is the smallest standard rating that is at least
\* the unrounded main current.  It is also the smallest one at least the
\* reported current, except when the reported current is itself a standard
\* rating and the unrounded current lies above it, by less than 0.05: the
\* breaker is then the next rating above the reported current.
C24_BreakerAmended ==
    StandardBreakerReturned =>
        LET cur == calc.mainCurrent
            rep == result.mainCurrent
            size == result.mainBreaker.size
        IN  /\ size = Int2Num(RatingAtLeast(cur))
            /\ IF rep.d = 1 /\ rep.n \in StandardRatings /\ Gt(cur, rep)
               THEN /\ size = Int2Num(RatingAbove(rep))
                    /\ ~Ge(Minus(cur, rep), Num(5, 100))
               ELSE size = Int2Num(RatingAtLeast(rep))

\* A 1.47 kW row on a 220 V system: 10.02 A, reported as 10, protected by 16 A.
C24_Witness ==
    /\ StandardBreakerReturned
    /\ Len(loads) = 1
    /\ Gt(calc.mainCurrent, Int2Num(10))
    /\ result.mainCurrent = Int2Num(10)
    /\ result.mainBreaker.size = Int2Num(16)

\* Motor currents the advice is compared with: a third of each probe current,
\* so that 1.5 x the estimate falls just below, on and just above each rating.
MotorProbes == { Num(a.n, 3 * a.d) : a \in ProbeCurrents } \cup
               { Int2Num(4), Int2Num(400), Int2Num(500) }

\* C25: for every MOTOR row the breaker size printed in the advice is strictly
\* greater than 1.5 x the estimated motor current, and a smaller estimated
\* current never gets a larger breaker.
C25_MotorBreakerCoversCurrent ==
    (MotorAdvised /\ InputsFinite(loads)) =>
        LET est == RuleMotorCurrent(loads[rowRec.row], config.systemVoltage)
        IN  /\ Gt(rowRec.out.breaker, Mul(est, Num(15, 10)))
            /\ \A a \in MotorProbes :
                    Le(a, est) => Le(motorBreakerSize(a), rowRec.out.breaker)

\* The supply bands in rising order, and the breakpoint that closes each.
BandOf(text) ==
    CASE text = "60W (2.5A) supply" -> 1
      [] text = "120W (5A) supply" -> 2
      [] text = "240W (10A) supply" -> 3
      [] text = "480W (20A) supply" -> 4
      [] text = "{amps}A or more, parallel or larger supply" -> 5

Breakpoint(band) ==
    CASE band = 1 -> Num(25, 10)
      [] band = 2 -> Int2Num(5)
      [] band = 3 -> Int2Num(10)
      [] band = 4 -> Int2Num(20)

\* The band of a current: the first one whose breakpoint is not exceeded.
RuleBand(x) ==
    IF \E b \in 1..4 : Le(x, Breakpoint(b))
    THEN Min({ b \in 1..4 : Le(x, Breakpoint(b)) })
    ELSE 5

\* C26: in every 24V result the description is the one of the band in which
\* the recommended current reported in the same result (rounded to two
\* decimals) lies: a reported value <= 2.5 comes with the 60W supply, <= 5
\* with at most the 120W one, <= 10 with at most the 240W one, <= 20 with at
\* most the 480W one.
C26_DescriptionMatchesReportedCurrent ==
    (Dc24VCalled /\ ret.value.recommended.t = "num") =>
        LET rep == ret.value.returned.recommendedCurrent
            band == BandOf(ret.value.returned.description.text)
        IN  \A b \in 1..4 : Le(rep, Breakpoint(b)) => band <= b

\* C26 (amended): the description is the one of the band of the unrounded
\* recommended current.  A reported value strictly below a breakpoint comes
\* with at most that breakpoint's band and a reported value above it with a
\* higher band; a reported value equal to a breakpoint comes with that band,
\* or with the next one when the unrounded value exceeds the breakpoint (by
\* less than 0.005).
C26_DescriptionAmended ==
    (Dc24VCalled /\ ret.value.recommended.t = "num") =>
        LET raw == ret.value.recommended
            rep == ret.value.returned.recommendedCurrent
            band == BandOf(ret.value.returned.description.text)
        IN  /\ band = RuleBand(raw)
            /\ \A b \in 1..4 :
                  /\ (Le(rep, Breakpoint(b)) /\ rep # Breakpoint(b)) => band <= b
                  /\ Gt(rep, Breakpoint(b)) => band > b
                  /\ rep = Breakpoint(b) =>
                        IF Gt(raw, Breakpoint(b))
                        THEN /\ band = b + 1
                             /\ ~Ge(Minus(raw, Breakpoint(b)), Num(5, 1000))
                        ELSE band = b

\* One flagged row drawing 1.925 A: recommended 2.5025 A, reported as 2.5 A
\* together with the 120W supply.
C26_Witness ==
    /\ Dc24VCalled
    /\ Gt(ret.value.recommended, Num(25, 10))
    /\ ret.value.returned.recommendedCurrent = Num(25, 10)
    /\ ret.value.returned.description.text = "120W (5A) supply"

NamesUnique ==
    \A i, j \in 1..Len(customLibrary) :
        i # j => customLibrary[i].name # customLibrary[j].name

\* The step is a saveToLibrary whose overwrite question was answered no.
OverwriteDeclined ==
    call'.fn = "saveToLibrary" /\ call'.duplicate /\ ~call'.confirmed

\* C21: after the library is initialised from the stored text, and after any
\* sequence of saveToLibrary (overwrite confirmed or declined) and
\* deleteFromLibrary, no two entries of the library have the same name; a
\* declined overwrite leaves the library, and its stored text, as they were.
C21_LibraryNamesUnique ==
    /\ []NamesUnique
    /\ [][OverwriteDeclined =>
            customLibrary' = customLibrary /\ storage' = storage]_vars

\* A row under a name the library holds was offered and the overwrite
\* declined.
C21_Witness ==
    /\ call.fn = "saveToLibrary"
    /\ call.duplicate
    /\ ~call.confirmed
    /\ \E i \in 1..Len(customLibrary) :
          /\ customLibrary[i].name = call.name
          /\ customLibrary[i].powerKw = Num(75, 100)

\* The step is a saveToLibrary that overwrites the entry of this name.
Overwritten(name) ==
    call'.fn = "saveToLibrary" /\ call'.confirmed /\ call'.name = name

\* Entry i before the step and entry j after it are the same entry: the same
\* name, not overwritten by the step.
SameEntry(i, j) ==
    /\ customLibrary[i].name = customLibrary'[j].name
    /\ ~Overwritten(customLibrary[i].name)

\* The stored text holds every entry under the identifier it has on screen.
IdsPersisted ==
    /\ Len(storage.items) = Len(customLibrary)
    /\ \A i \in 1..Len(customLibrary) :
          parseItem(storage.items[i]).libId = customLibrary[i].libId

\* C22: once an entry is in the library its libId stays the same for as long
\* as the entry is neither deleted nor overwritten, also when the library is
\* persisted and initialised again from the persisted text.
C22_LibIdStable ==
    [][\A i \in 1..Len(customLibrary), j \in 1..Len(customLibrary') :
          SameEntry(i, j) => customLibrary'[j].libId = customLibrary[i].libId]_vars

\* C22 (amended): within a session an entry keeps its libId for as long as it
\* is neither deleted nor overwritten, and the persisted text stores that
\* libId; initialising the library again from the persisted text keeps the
\* entry but gives it a newly generated libId, built from the clock, the
\* position of the entry and a random string.
C22_LibIdStableWithinSession ==
    [][/\ IdsPersisted'
       /\ \A i \in 1..Len(customLibrary), j \in 1..Len(customLibrary') :
            SameEntry(i, j) =>
                IF call'.fn = "App"
                THEN \E random \in Randoms :
                        customLibrary'[j].libId =
                            initialLibId(dateNow(clock'), j - 1, random)
                ELSE customLibrary'[j].libId = customLibrary[i].libId]_vars

\* An entry saved in one session and read back by the next: it is still in
\* the library, under an identifier of the initializer.
C22_Witness ==
    /\ call.fn = "App"
    /\ clock >= 2
    /\ \E j \in 1..Len(customLibrary), random \in Randoms :
          /\ customLibrary[j].name = "hydraulic pump motor"
          /\ customLibrary[j].libId = initialLibId(dateNow(clock), j - 1, random)

\* C27: after any sequence of addLoad, importFromLibrary, updateLoad and
\* removeLoad, each new id being the clock reading at the moment of the
\* operation, the rows of the load table have pairwise distinct ids, so that
\* removeLoad(id) removes exactly one row and updateLoad(id, ...) changes
\* exactly one row.
C27_LoadIdsDistinct ==
    /\ \A i, j \in 1..Len(loads) : i # j => loads[i].id # loads[j].id
    /\ \A i \in 1..Len(loads) :
          /\ Len(removeLoad(loads, loads[i].id)) = Len(loads) - 1
          /\ Cardinality({ k \in 1..Len(loads) :
                 updateLoad(loads, loads[i].id, "name", "renamed")[k]
                    # loads[k] }) = 1

====
